---------------------------- MODULE Spec2Model ----------------------------
(***************************************************************************)
(* Model of src/apis/payments/model.rs of truelayer-rust: the payment      *)
(* lifecycle types, their wire encoding, the two Pollable implementations  *)
(* and the terminal-state predicate, together with the polling loop that   *)
(* drives a Pollable to a terminal snapshot.                               *)
(*                                                                         *)
(* Rust values are modelled as follows.                                    *)
(*   Option<T>     None = [none |-> TRUE], Some(x) = [some |-> x]          *)
(*   Result<T,E>   Ok(v) = [Ok |-> v],     Err(e)  = [Err |-> e]           *)
(*   enum value    a record whose field `variant` names the variant        *)
(*   JSON          JNull, JStr(s), JNum(n); an object is a record whose    *)
(*                 domain is the set of keys present in the payload        *)
(***************************************************************************)
EXTENDS Integers, Sequences, FiniteSets, TLC

VARIABLES
    self,       \* the Pollable being driven (CreatePaymentResponse or Payment)
    tl,         \* the transport: the id it knows and its scripted responses
    interval,   \* polling interval of the session
    max_wait,   \* overall timeout of the session
    pc,         \* "Polling" | "Waiting" | "Done" | "Idle"
    now,        \* time elapsed since the session started
    fetches,    \* number of get_by_id calls performed
    lastFetch,  \* Option: what the last get_by_id returned
    lastPoll,   \* Option: what the last poll_once returned
    last,       \* Option: the last snapshot fetched
    surfaced,   \* sequence of outcomes handed to the caller
    value,      \* codec: the typed value under test
    payload,    \* codec: the JSON payload in flight
    decoded,    \* codec: Option of the result of decoding payload
    classified, \* codec: Option of the result of is_in_terminal_state
    stage       \* codec: which step the value or payload under test is at

pollVars  == <<self, tl, interval, max_wait, pc, now, fetches, lastFetch,
               lastPoll, last, surfaced>>
codecVars == <<value, payload, decoded, classified, stage>>
vars      == <<self, tl, interval, max_wait, pc, now, fetches, lastFetch,
               lastPoll, last, surfaced, value, payload, decoded, classified, stage>>

---------------------------------------------------------------------------
(* Bounds of the model *)

MaxScript == 3      \* longest scripted response sequence
MaxWait   == 3      \* largest overall timeout

---------------------------------------------------------------------------
(* Option and Result *)

None      == [none |-> TRUE]
Some(x)   == [some |-> x]
IsSome(o) == "some" \in DOMAIN o
IsNone(o) == "none" \in DOMAIN o

Ok(v)     == [Ok |-> v]
Err(e)    == [Err |-> e]
IsOk(r)   == "Ok" \in DOMAIN r
IsErr(r)  == "Err" \in DOMAIN r

\* Result<Option<T>, E>::transpose : Ok(None) -> None, Ok(Some(x)) -> Some(Ok(x)),
\* Err(e) -> Some(Err(e))
transpose(r) ==
    IF IsOk(r)
      THEN IF IsNone(r.Ok) THEN None ELSE Some(Ok(r.Ok.some))
      ELSE Some(Err(r.Err))

\* Option<T>::unwrap_or_else(f), with the closure's value passed as d
unwrap_or_else(o, d) == IF IsSome(o) THEN o.some ELSE d

---------------------------------------------------------------------------
(* Errors.  Error::Other(anyhow) is the only variant model.rs constructs;  *)
(* the transport may fail with any Error.                                  *)

ErrorOther(msg) == [variant |-> "Other", msg |-> msg]

NotFoundWhilePolling == ErrorOther("Payment returned 404 while polling")

FetchErrors ==
    { [variant |-> "HttpError", msg |-> "connection reset"],
      ErrorOther("invalid type: missing field status") }

---------------------------------------------------------------------------
(* Sample values of the data model *)

Times == {1, 2}

WaitFlow  == [actions       |-> Some([next |-> [type |-> "Wait"]]),
              configuration |-> None]
EmptyFlow == [actions |-> None, configuration |-> None]
ConfiguredFlow ==
    [actions       |-> None,
     configuration |-> Some([provider_selection |-> None, redirect |-> None,
                             form |-> None])]
AuthorizationFlow == {EmptyFlow, WaitFlow, ConfiguredFlow}

OptionOf(S) == {None} \cup {Some(x) : x \in S}

SettlementRisk == {[category |-> "low_risk"]}
FailureStage   == {"AuthorizationRequired", "Authorizing", "Authorized"}
AccountIdentifier == {[type |-> "Iban", iban |-> "GB33BUKB20201555555555"]}
PaymentSource  ==
    { [id |-> "src_1", user_id |-> None, account_identifiers |-> a,
       account_holder_name |-> None] : a \in {<<>>} \cup [1..1 -> AccountIdentifier] }

\* enum PaymentStatus: every value of the six variants over the sample data
PaymentStatus ==
    {[variant |-> "AuthorizationRequired"]}
    \cup [variant : {"Authorizing"}, authorization_flow : AuthorizationFlow]
    \cup [variant : {"Authorized"}, authorization_flow : OptionOf(AuthorizationFlow)]
    \cup [variant : {"Executed"}, executed_at : Times,
          authorization_flow : OptionOf(AuthorizationFlow),
          settlement_risk : OptionOf(SettlementRisk)]
    \cup [variant : {"Settled"}, payment_source : PaymentSource,
          executed_at : Times, settled_at : Times,
          authorization_flow : OptionOf(AuthorizationFlow),
          settlement_risk : OptionOf(SettlementRisk)]
    \cup [variant : {"Failed"}, failed_at : Times, failure_stage : FailureStage,
          failure_reason : {"canceled"},
          authorization_flow : OptionOf(AuthorizationFlow)]

PaymentId == "pay_1"
UserId    == "usr_1"

\* struct Payment
Payment(st) ==
    [id              |-> PaymentId,
     amount_in_minor |-> 100,
     currency        |-> "Gbp",
     user            |-> [id |-> UserId, name |-> None, email |-> None, phone |-> None],
     payment_method  |-> [type |-> "BankTransfer"],
     created_at      |-> 1,
     metadata        |-> None,
     status          |-> st]

\* struct CreatePaymentResponse
CreatePaymentResponse ==
    [id             |-> PaymentId,
     resource_token |-> "tok_1",
     user           |-> [id |-> UserId]]

---------------------------------------------------------------------------
(* impl IsInTerminalState for Payment *)

\* mutant: Authorized counted among the terminal variants
is_in_terminal_state_AuthorizedToo(p) ==
    p.status.variant \in {"Authorized", "Executed", "Settled", "Failed"}

\* mutant: the match negated
is_in_terminal_state_Negated(p) ==
    p.status.variant \notin {"Executed", "Settled", "Failed"}

\* mutant: Failed left out of the match
is_in_terminal_state_NoFailed(p) ==
    p.status.variant \in {"Executed", "Settled"}

is_in_terminal_state(p) ==
    p.status.variant \in {"Executed", "Settled", "Failed"}

---------------------------------------------------------------------------
(* The transport: tl.payments.get_by_id(id) answers with the n-th scripted *)
(* response for the payment it knows (the last one repeats for ever) and   *)
(* with not-found, Ok(None), for any other id.                             *)

get_by_id(t, id, n) ==
    IF id = t.payment_id
      THEN t.responses[IF n < Len(t.responses) THEN n ELSE Len(t.responses)]
      ELSE Ok(None)

(* impl Pollable for CreatePaymentResponse *)

\* mutant: the payment fetched by the id of the user instead of its own
poll_once_CreatePaymentResponse_ByUserId(s, t, n) ==
    unwrap_or_else(transpose(get_by_id(t, s.user.id, n)), Err(NotFoundWhilePolling))

\* mutant: .ok().flatten().ok_or(..), which turns every fetch error into the 404 error
poll_once_CreatePaymentResponse_ErrorsSwallowed(s, t, n) ==
    LET r == get_by_id(t, s.id, n)
    IN  IF IsOk(r) /\ IsSome(r.Ok) THEN Ok(r.Ok.some) ELSE Err(NotFoundWhilePolling)

poll_once_CreatePaymentResponse(s, t, n) ==
    unwrap_or_else(transpose(get_by_id(t, s.id, n)), Err(NotFoundWhilePolling))

(* impl Pollable for Payment *)

\* mutant: not-found passed on as the API's own 404 error
poll_once_Payment_NotFoundAsApiError(s, t, n) ==
    unwrap_or_else(transpose(get_by_id(t, s.id, n)),
                   Err([variant |-> "ApiError", msg |-> "404 Not Found"]))

poll_once_Payment(s, t, n) ==
    unwrap_or_else(transpose(get_by_id(t, s.id, n)), Err(NotFoundWhilePolling))

\* dynamic dispatch of Pollable::poll_once on the kind of self
IsPayment(s) == "status" \in DOMAIN s

poll_once(s, t, n) ==
    IF IsPayment(s) THEN poll_once_Payment(s, t, n)
                    ELSE poll_once_CreatePaymentResponse(s, t, n)

---------------------------------------------------------------------------
(* The polling loop (crate::pollable), which is not part of model.rs: it   *)
(* is modelled from its specification.  fetch -> if terminal, stop and     *)
(* return it -> else wait an interval and repeat; a not-found poll is      *)
(* retried inside the overall timeout, any other error ends the session;   *)
(* the timeout is measured from the start of the session.                  *)

\* the one transient condition: the error poll_once makes of a not-found
is_retryable(e) == e = NotFoundWhilePolling

Terminal(p)   == [kind |-> "Terminal", snapshot |-> p]
Timeout(p)    == [kind |-> "Timeout", last |-> p]
Failure(e)    == [kind |-> "Error", error |-> e]

\* one iteration of the loop: poll, classify, then stop or go to sleep
PollStep ==
    /\ pc = "Polling"
    /\ LET n == fetches + 1
           r == poll_once(self, tl, n)
           expired == now >= max_wait
       IN  /\ fetches'   = n
           /\ lastFetch' = Some(get_by_id(tl, tl.payment_id, n))
           /\ lastPoll'  = Some(r)
           /\ IF IsOk(r)
                THEN /\ last' = Some(r.Ok)
                     /\ IF is_in_terminal_state(r.Ok)
                          THEN /\ surfaced' = Append(surfaced, Terminal(r.Ok))
                               /\ pc' = "Done"
                          ELSE IF expired
                                 THEN /\ surfaced' = Append(surfaced, Timeout(r.Ok))
                                      /\ pc' = "Done"
                                 ELSE /\ surfaced' = surfaced
                                      /\ pc' = "Waiting"
                ELSE /\ last' = last
                     /\ IF is_retryable(r.Err) /\ ~expired
                          THEN /\ surfaced' = surfaced
                               /\ pc' = "Waiting"
                          ELSE /\ surfaced' = Append(surfaced, Failure(r.Err))
                               /\ pc' = "Done"
    /\ UNCHANGED <<self, tl, interval, max_wait, now>>
    /\ UNCHANGED codecVars

\* the wait between two polls
Sleep ==
    /\ pc = "Waiting"
    /\ now' = now + interval
    /\ pc'  = "Polling"
    /\ UNCHANGED <<self, tl, interval, max_wait, fetches, lastFetch, lastPoll,
                   last, surfaced>>
    /\ UNCHANGED codecVars

---------------------------------------------------------------------------
(* Polling sessions *)

\* one snapshot per status variant, as the transport may return them
SnapshotStatuses ==
    { [variant |-> "AuthorizationRequired"],
      [variant |-> "Authorizing", authorization_flow |-> WaitFlow],
      [variant |-> "Authorized", authorization_flow |-> None],
      [variant |-> "Executed", executed_at |-> 1, authorization_flow |-> None,
       settlement_risk |-> None],
      [variant |-> "Settled",
       payment_source |-> [id |-> "src_1", user_id |-> None,
                           account_identifiers |-> <<>>,
                           account_holder_name |-> None],
       executed_at |-> 1, settled_at |-> 1, authorization_flow |-> None,
       settlement_risk |-> None],
      [variant |-> "Failed", failed_at |-> 1, failure_stage |-> "Authorizing",
       failure_reason |-> "canceled", authorization_flow |-> None] }

Snapshots == {Payment(st) : st \in SnapshotStatuses}

\* Result<Option<Payment>, Error>: what get_by_id may return
FetchResults ==
    {Ok(None)} \cup {Ok(Some(p)) : p \in Snapshots} \cup {Err(e) : e \in FetchErrors}

Scripts == UNION {[1..n -> FetchResults] : n \in 1..MaxScript}

Pollables == {CreatePaymentResponse, Payment([variant |-> "AuthorizationRequired"])}

Intervals == {1, 2}

CodecIdle ==
    /\ value = None /\ payload = None /\ decoded = None /\ classified = None
    /\ stage = "none"

Init ==
    /\ self \in Pollables
    /\ tl \in [payment_id : {PaymentId}, responses : Scripts]
    /\ interval \in Intervals
    /\ max_wait \in 0..MaxWait
    /\ pc = "Polling"
    /\ now = 0
    /\ fetches = 0
    /\ lastFetch = None
    /\ lastPoll = None
    /\ last = None
    /\ surfaced = <<>>
    /\ CodecIdle

Next == PollStep \/ Sleep

Spec == Init /\ [][Next]_vars

\* the loop is sequential and every step of it returns: it keeps being taken
FairSpec == Spec /\ WF_vars(Next)

---------------------------------------------------------------------------
(* Properties of a polling session *)

TerminalVariants    == {"Executed", "Settled", "Failed"}
NonTerminalVariants == {"AuthorizationRequired", "Authorizing", "Authorized"}

script    == tl.responses
IsSnapshot(f)     == IsOk(f) /\ IsSome(f.Ok)
VariantOf(f)      == f.Ok.some.status.variant
IsNotFound(f)     == IsOk(f) /\ IsNone(f.Ok)
Served(n)         == script[IF n < Len(script) THEN n ELSE Len(script)]

\* the script is a sequence of snapshots of which the last, and only the last,
\* is terminal
ScriptEndsTerminal ==
    /\ \A i \in 1..Len(script) : IsSnapshot(script[i])
    /\ \A i \in 1..(Len(script) - 1) : VariantOf(script[i]) \in NonTerminalVariants
    /\ VariantOf(script[Len(script)]) \in TerminalVariants

\* the last element of the script is due within max_wait of the start
ScriptFitsBudget == (Len(script) - 1) * interval <= max_wait

ReturnsLastWithLenFetches ==
    /\ surfaced = <<Terminal(script[Len(script)].Ok.some)>>
    /\ fetches = Len(script)

LastFetchTime == IF pc = "Polling" THEN now - interval ELSE now

NoErrorSurfaced == \A i \in 1..Len(surfaced) : surfaced[i].kind # "Error"

\* C3: a not-found answer fetched before the overall timeout has elapsed does
\* not end the session and surfaces nothing: the session goes on to fetch
\* again; and for the script [not-found, not-found, Payment] within the budget
\* no error is ever surfaced, the session does not end before the third fetch,
\* and the third fetch yields the Payment.
C3_NotFoundRetried ==
    /\ (fetches > 0 /\ IsNotFound(lastFetch.some) /\ LastFetchTime < max_wait) =>
          (pc \in {"Waiting", "Polling"} /\ surfaced = <<>>)
    /\ ( /\ Len(script) = 3
         /\ IsNotFound(script[1]) /\ IsNotFound(script[2]) /\ IsSnapshot(script[3])
         /\ 2 * interval <= max_wait ) =>
          /\ NoErrorSurfaced
          /\ pc = "Done" => fetches >= 3
          /\ fetches = 3 => (lastPoll = Some(Ok(script[3].Ok.some))
                             /\ last = Some(script[3].Ok.some))

C3_Witness ==
    /\ Len(script) = 3
    /\ IsNotFound(script[1]) /\ IsNotFound(script[2]) /\ IsSnapshot(script[3])
    /\ fetches = 3 /\ pc = "Done"
    /\ surfaced = <<Terminal(script[3].Ok.some)>>

ScriptAllNonTerminal ==
    \A i \in 1..Len(script) :
        IsSnapshot(script[i]) /\ VariantOf(script[i]) \in NonTerminalVariants

\* C4: the session never runs, and never waits, beyond max_wait + interval of
\* its start, whatever was retried before; and when the transport serves only
\* non-terminal snapshots, for ever, the session ends in a timeout that carries
\* the last snapshot fetched.
C4_TimeoutCarriesLastSnapshot ==
    /\ now < max_wait + interval
    /\ pc = "Waiting" => now < max_wait
    /\ ScriptAllNonTerminal =>
          /\ \A i \in 1..Len(surfaced) : surfaced[i].kind = "Timeout"
          /\ pc = "Done" =>
                /\ surfaced = <<Timeout(Served(fetches).Ok.some)>>
                /\ now >= max_wait

C4_Witness ==
    /\ ScriptAllNonTerminal /\ pc = "Done" /\ fetches > Len(script)
    /\ max_wait > 0 /\ now > max_wait
    /\ surfaced = <<Timeout(script[Len(script)].Ok.some)>>

\* C5: once a fetch has failed with an error (a decoding or a transport error)
\* the session is over, the caller has been handed exactly that error,
\* unchanged, and that fetch was the last one: no error was fetched before it.
C5_FatalErrorSurfaced ==
    (fetches > 0 /\ IsErr(lastFetch.some)) =>
        /\ pc = "Done"
        /\ lastPoll = Some(Err(lastFetch.some.Err))
        /\ surfaced = <<Failure(lastFetch.some.Err)>>
        /\ lastFetch.some = script[fetches]
        /\ \A i \in 1..(fetches - 1) : ~IsErr(script[i])

C5_Witness ==
    /\ fetches = 2 /\ Len(script) = 3 /\ pc = "Done"
    /\ IsNotFound(script[1]) /\ IsErr(script[2])
    /\ script[2].Err.variant = "Other"
    /\ surfaced = <<Failure(script[2].Err)>>

\* the outcome of a finished session is one of the three kinds
OutcomeWellFormed(o) ==
    \/ /\ o.kind = "Terminal"
       /\ o.snapshot.status.variant \in TerminalVariants
       /\ last = Some(o.snapshot)
    \/ /\ o.kind = "Timeout"
       /\ o.last.status.variant \in NonTerminalVariants
       /\ last = Some(o.last)
    \/ /\ o.kind = "Error"
       /\ lastPoll = Some(Err(o.error))

\* C6: every session eventually ends; it has an outcome exactly when it has
\* ended, and then exactly one: a terminal snapshot, a timeout carrying the
\* last snapshot seen, or an error; so at most one terminal snapshot is
\* surfaced.
C6_SessionEndsWithOneOutcome ==
    /\ <>(pc = "Done")
    /\ [](/\ Len(surfaced) <= 1
          /\ pc = "Done" <=> Len(surfaced) = 1
          /\ \A i \in 1..Len(surfaced) : OutcomeWellFormed(surfaced[i]))

C6_Witness ==
    /\ pc = "Done" /\ Len(surfaced) = 1 /\ fetches >= 3
    /\ surfaced[1].kind = "Terminal" /\ surfaced[1].snapshot.status.variant = "Failed"

\* the kinds of error the transport itself may report
TransportErrorKinds == {e.variant : e \in FetchErrors}

\* C7, as claimed: the error poll_once makes of a not-found answer is of a kind
\* of its own, none of the kinds of error the fetch may report; it is never a
\* success; and a session that ends on it hands the caller that error.
C7_AsClaimed ==
    (fetches > 0 /\ IsNotFound(lastFetch.some)) =>
        /\ IsErr(lastPoll.some)
        /\ lastPoll.some.Err.variant \notin TransportErrorKinds
        /\ pc = "Done" => surfaced = <<Failure(lastPoll.some.Err)>>

\* what both poll_once implementations are to make of a fetch result
Expected(f) ==
    IF IsSnapshot(f) THEN Ok(f.Ok.some)
    ELSE IF IsErr(f) THEN Err(f.Err)
    ELSE Err(NotFoundWhilePolling)

\* C10: at every fetch of the session, a CreatePaymentResponse and a Payment
\* (in whatever status) with the same id poll to the same result: the found
\* Payment as success, the fetch error as that error, not-found as an error;
\* what the session polled is that result, and polling never changes self.
C10_PollablesInterchangeable ==
    /\ [](/\ pc = "Polling" =>
                LET n == fetches + 1
                    r == poll_once_CreatePaymentResponse(CreatePaymentResponse, tl, n)
                IN  /\ \A p \in Snapshots : poll_once_Payment(p, tl, n) = r
                    /\ r = Expected(Served(n))
                    /\ IsNotFound(Served(n)) => IsErr(r)
          /\ fetches > 0 => lastPoll = Some(Expected(lastFetch.some)))
    /\ [][self' = self]_vars

C10_Witness ==
    /\ fetches = 3 /\ Len(script) = 3 /\ ~IsPayment(self)
    /\ IsNotFound(script[1]) /\ IsSnapshot(script[2]) /\ IsErr(script[3])
    /\ lastPoll = Some(Err(script[3].Err))

---------------------------------------------------------------------------
(* JSON, and what the derived Serialize / Deserialize do with it *)

JNull    == [null |-> TRUE]
JAbsent  == [absent |-> TRUE]    \* what looking up a key the object lacks gives
JStr(x)  == [str |-> x]
JNum(x)  == [num |-> x]
JTime(t) == [rfc3339 |-> t]      \* the JSON string that renders the instant t
JArr(a)  == [arr |-> a]
JObj(o)  == [obj |-> o]

Get(o, k) == IF k \in DOMAIN o THEN o[k] ELSE JAbsent

DecodeError(msg) == Err([serde |-> msg])

\* #[serde(rename_all = "snake_case")] on the names this model uses
snake_case(name) ==
    CASE name = "AuthorizationRequired" -> "authorization_required"
      [] name = "Authorizing"           -> "authorizing"
      [] name = "Authorized"            -> "authorized"
      [] name = "Executed"              -> "executed"
      [] name = "Settled"               -> "settled"
      [] name = "Failed"                -> "failed"
      [] name = "Wait"                  -> "wait"
      [] name = "Iban"                  -> "iban"

\* Option<T>: None is written as null, Some(x) as x is; j is x as written
ser_Option(o, j) == IF IsNone(o) THEN JNull ELSE j

\* Option<T>: null, or no key at all, is None; r is what T makes of the value j
de_Option(j, r) ==
    IF j = JNull \/ j = JAbsent THEN Ok(None)
    ELSE IF IsOk(r) THEN Ok(Some(r.Ok)) ELSE r

de_String(j) ==
    IF "str" \in DOMAIN j THEN Ok(j.str) ELSE DecodeError("invalid type: expected a string")

de_DateTime(j) ==
    IF "rfc3339" \in DOMAIN j THEN Ok(j.rfc3339)
    ELSE DecodeError("invalid type: expected an RFC 3339 date and time")

\* the results of a struct's fields, in order: all decoded, or the first error
AllOk(rs)    == \A k \in 1..Len(rs) : IsOk(rs[k])
FirstErr(rs) == rs[CHOOSE k \in 1..Len(rs) : IsErr(rs[k]) /\ \A m \in 1..(k - 1) : IsOk(rs[m])]

\* enum AuthorizationFlowNextAction, tag = "type" (the unit variant Wait)
ser_NextAction(a) == JObj([type |-> JStr(snake_case(a.type))])
de_NextAction(j) ==
    IF "obj" \notin DOMAIN j THEN DecodeError("invalid type: expected a map")
    ELSE IF Get(j.obj, "type") = JStr("wait") THEN Ok([type |-> "Wait"])
    ELSE DecodeError("unknown variant of AuthorizationFlowNextAction")

\* struct AuthorizationFlowActions
ser_Actions(a) == JObj([next |-> ser_NextAction(a.next)])
de_Actions(j) ==
    IF "obj" \notin DOMAIN j THEN DecodeError("invalid type: expected a map")
    ELSE LET n == de_NextAction(Get(j.obj, "next"))
         IN  IF IsOk(n) THEN Ok([next |-> n.Ok]) ELSE n

\* the unit-like structs ProviderSelectionSupported, RedirectSupported and
\* FormSupported are always absent in the sample data
ser_Supported(x) == JObj(x)
de_Supported(j)  == IF "obj" \in DOMAIN j THEN Ok(j.obj)
                    ELSE DecodeError("invalid type: expected a map")

\* struct AuthorizationFlowConfiguration
ser_Configuration(c) ==
    JObj([provider_selection |-> ser_Option(c.provider_selection,
                                            ser_Supported(c.provider_selection.some)),
          redirect           |-> ser_Option(c.redirect, ser_Supported(c.redirect.some)),
          form               |-> ser_Option(c.form, ser_Supported(c.form.some))])
de_Configuration(j) ==
    IF "obj" \notin DOMAIN j THEN DecodeError("invalid type: expected a map")
    ELSE LET ps == de_Option(Get(j.obj, "provider_selection"),
                             de_Supported(Get(j.obj, "provider_selection")))
             rd == de_Option(Get(j.obj, "redirect"), de_Supported(Get(j.obj, "redirect")))
             fm == de_Option(Get(j.obj, "form"), de_Supported(Get(j.obj, "form")))
         IN  IF AllOk(<<ps, rd, fm>>)
               THEN Ok([provider_selection |-> ps.Ok, redirect |-> rd.Ok, form |-> fm.Ok])
               ELSE FirstErr(<<ps, rd, fm>>)

\* struct AuthorizationFlow
ser_AuthorizationFlow(f) ==
    JObj([actions       |-> ser_Option(f.actions, ser_Actions(f.actions.some)),
          configuration |-> ser_Option(f.configuration,
                                       ser_Configuration(f.configuration.some))])
de_AuthorizationFlow(j) ==
    IF "obj" \notin DOMAIN j THEN DecodeError("invalid type: expected a map")
    ELSE LET a == de_Option(Get(j.obj, "actions"), de_Actions(Get(j.obj, "actions")))
             c == de_Option(Get(j.obj, "configuration"),
                            de_Configuration(Get(j.obj, "configuration")))
         IN  IF AllOk(<<a, c>>) THEN Ok([actions |-> a.Ok, configuration |-> c.Ok])
             ELSE FirstErr(<<a, c>>)

\* struct SettlementRisk
ser_SettlementRisk(r) == JObj([category |-> JStr(r.category)])
de_SettlementRisk(j) ==
    IF "obj" \notin DOMAIN j THEN DecodeError("invalid type: expected a map")
    ELSE LET c == de_String(Get(j.obj, "category"))
         IN  IF IsOk(c) THEN Ok([category |-> c.Ok]) ELSE c

\* enum FailureStage, snake_case
ser_FailureStage(x) == JStr(snake_case(x))
de_FailureStage(j) ==
    IF "str" \in DOMAIN j /\ \E x \in FailureStage : snake_case(x) = j.str
      THEN Ok(CHOOSE x \in FailureStage : snake_case(x) = j.str)
      ELSE DecodeError("unknown variant of FailureStage")

\* enum AccountIdentifier, tag = "type" (the variant Iban)
ser_AccountIdentifier(a) == JObj([type |-> JStr(snake_case(a.type)), iban |-> JStr(a.iban)])
de_AccountIdentifier(j) ==
    IF "obj" \notin DOMAIN j THEN DecodeError("invalid type: expected a map")
    ELSE IF Get(j.obj, "type") # JStr("iban")
      THEN DecodeError("unknown variant of AccountIdentifier")
    ELSE LET i == de_String(Get(j.obj, "iban"))
         IN  IF IsOk(i) THEN Ok([type |-> "Iban", iban |-> i.Ok]) ELSE i

\* Vec<AccountIdentifier> under #[serde(default)]: an absent key is the empty Vec
ser_AccountIdentifiers(v) == JArr([i \in DOMAIN v |-> ser_AccountIdentifier(v[i])])
de_AccountIdentifiers(j) ==
    IF j = JAbsent THEN Ok(<<>>)
    ELSE IF "arr" \notin DOMAIN j THEN DecodeError("invalid type: expected a sequence")
    ELSE LET rs == [i \in DOMAIN j.arr |-> de_AccountIdentifier(j.arr[i])]
         IN  IF \A i \in DOMAIN rs : IsOk(rs[i])
               THEN Ok([i \in DOMAIN rs |-> rs[i].Ok])
               ELSE rs[CHOOSE i \in DOMAIN rs : IsErr(rs[i])]

\* struct PaymentSource
ser_PaymentSource(x) ==
    JObj([id                  |-> JStr(x.id),
          user_id             |-> ser_Option(x.user_id, JStr(x.user_id.some)),
          account_identifiers |-> ser_AccountIdentifiers(x.account_identifiers),
          account_holder_name |-> ser_Option(x.account_holder_name,
                                             JStr(x.account_holder_name.some))])
de_PaymentSource(j) ==
    IF "obj" \notin DOMAIN j THEN DecodeError("invalid type: expected a map")
    ELSE LET i == de_String(Get(j.obj, "id"))
             u == de_Option(Get(j.obj, "user_id"), de_String(Get(j.obj, "user_id")))
             a == de_AccountIdentifiers(Get(j.obj, "account_identifiers"))
             h == de_Option(Get(j.obj, "account_holder_name"),
                            de_String(Get(j.obj, "account_holder_name")))
         IN  IF AllOk(<<i, u, a, h>>)
               THEN Ok([id |-> i.Ok, user_id |-> u.Ok, account_identifiers |-> a.Ok,
                        account_holder_name |-> h.Ok])
               ELSE FirstErr(<<i, u, a, h>>)

---------------------------------------------------------------------------
(* enum PaymentStatus: #[serde(tag = "status", rename_all = "snake_case")] *)

StatusVariants ==
    {"AuthorizationRequired", "Authorizing", "Authorized", "Executed", "Settled",
     "Failed"}

\* Serialize: the variant's fields in one object with the sibling key "status";
\* an Option that is None is written as null
to_json_PaymentStatus(v) ==
    CASE v.variant = "AuthorizationRequired" ->
           [status |-> JStr(snake_case(v.variant))]
      [] v.variant = "Authorizing" ->
           [status |-> JStr(snake_case(v.variant)),
            authorization_flow |-> ser_AuthorizationFlow(v.authorization_flow)]
      [] v.variant = "Authorized" ->
           [status |-> JStr(snake_case(v.variant)),
            authorization_flow |-> ser_Option(v.authorization_flow,
                                              ser_AuthorizationFlow(v.authorization_flow.some))]
      [] v.variant = "Executed" ->
           [status |-> JStr(snake_case(v.variant)),
            executed_at |-> JTime(v.executed_at),
            authorization_flow |-> ser_Option(v.authorization_flow,
                                              ser_AuthorizationFlow(v.authorization_flow.some)),
            settlement_risk |-> ser_Option(v.settlement_risk,
                                           ser_SettlementRisk(v.settlement_risk.some))]
      [] v.variant = "Settled" ->
           [status |-> JStr(snake_case(v.variant)),
            payment_source |-> ser_PaymentSource(v.payment_source),
            executed_at |-> JTime(v.executed_at),
            settled_at |-> JTime(v.settled_at),
            authorization_flow |-> ser_Option(v.authorization_flow,
                                              ser_AuthorizationFlow(v.authorization_flow.some)),
            settlement_risk |-> ser_Option(v.settlement_risk,
                                           ser_SettlementRisk(v.settlement_risk.some))]
      [] v.variant = "Failed" ->
           [status |-> JStr(snake_case(v.variant)),
            failed_at |-> JTime(v.failed_at),
            failure_stage |-> ser_FailureStage(v.failure_stage),
            failure_reason |-> JStr(v.failure_reason),
            authorization_flow |-> ser_Option(v.authorization_flow,
                                              ser_AuthorizationFlow(v.authorization_flow.some))]

\* the fields of variant name decoded from the object o
de_PaymentStatusFields(name, o) ==
    LET flow    == de_AuthorizationFlow(Get(o, "authorization_flow"))
        optflow == de_Option(Get(o, "authorization_flow"),
                             de_AuthorizationFlow(Get(o, "authorization_flow")))
        risk    == de_Option(Get(o, "settlement_risk"),
                             de_SettlementRisk(Get(o, "settlement_risk")))
        exec    == de_DateTime(Get(o, "executed_at"))
        settled == de_DateTime(Get(o, "settled_at"))
        source  == de_PaymentSource(Get(o, "payment_source"))
        failed  == de_DateTime(Get(o, "failed_at"))
        stg     == de_FailureStage(Get(o, "failure_stage"))
        reason  == de_String(Get(o, "failure_reason"))
    IN  CASE name = "AuthorizationRequired" -> Ok([variant |-> name])
          [] name = "Authorizing" ->
               IF IsOk(flow)
                 THEN Ok([variant |-> name, authorization_flow |-> flow.Ok])
                 ELSE flow
          [] name = "Authorized" ->
               IF IsOk(optflow)
                 THEN Ok([variant |-> name, authorization_flow |-> optflow.Ok])
                 ELSE optflow
          [] name = "Executed" ->
               IF AllOk(<<exec, optflow, risk>>)
                 THEN Ok([variant |-> name, executed_at |-> exec.Ok,
                          authorization_flow |-> optflow.Ok,
                          settlement_risk |-> risk.Ok])
                 ELSE FirstErr(<<exec, optflow, risk>>)
          [] name = "Settled" ->
               IF AllOk(<<source, exec, settled, optflow, risk>>)
                 THEN Ok([variant |-> name, payment_source |-> source.Ok,
                          executed_at |-> exec.Ok, settled_at |-> settled.Ok,
                          authorization_flow |-> optflow.Ok,
                          settlement_risk |-> risk.Ok])
                 ELSE FirstErr(<<source, exec, settled, optflow, risk>>)
          [] name = "Failed" ->
               IF AllOk(<<failed, stg, reason, optflow>>)
                 THEN Ok([variant |-> name, failed_at |-> failed.Ok,
                          failure_stage |-> stg.Ok, failure_reason |-> reason.Ok,
                          authorization_flow |-> optflow.Ok])
                 ELSE FirstErr(<<failed, stg, reason, optflow>>)

\* mutant: Authorized's authorization_flow decoded as the mandatory one of Authorizing
from_json_PaymentStatus_FlowRequired(o) ==
    LET tag == Get(o, "status")
    IN  IF tag = JAbsent THEN DecodeError("missing field status")
        ELSE IF "str" \notin DOMAIN tag
                \/ \A name \in StatusVariants : snake_case(name) # tag.str
          THEN DecodeError("unknown variant")
        ELSE LET name == CHOOSE n \in StatusVariants : snake_case(n) = tag.str
             IN  de_PaymentStatusFields(IF name = "Authorized" THEN "Authorizing" ELSE name, o)

\* Deserialize: the variant is the one whose snake_case name the key "status"
\* holds; a payload without it, or with any other value, is an error
from_json_PaymentStatus(o) ==
    LET tag == Get(o, "status")
    IN  IF tag = JAbsent THEN DecodeError("missing field status")
        ELSE IF "str" \notin DOMAIN tag
                \/ \A name \in StatusVariants : snake_case(name) # tag.str
          THEN DecodeError("unknown variant")
        ELSE de_PaymentStatusFields(CHOOSE n \in StatusVariants : snake_case(n) = tag.str, o)

---------------------------------------------------------------------------
(* enum CreatePaymentUserRequest: #[serde(untagged)], the variants tried in *)
(* the order of their declaration, the first that decodes wins; keys a      *)
(* variant does not know are ignored                                        *)

de_ExistingUser(o) ==
    LET i == de_String(Get(o, "id"))
    IN  IF IsOk(i) THEN Ok([variant |-> "ExistingUser", id |-> i.Ok]) ELSE i

de_NewUser(o) ==
    LET n == de_Option(Get(o, "name"), de_String(Get(o, "name")))
        e == de_Option(Get(o, "email"), de_String(Get(o, "email")))
        p == de_Option(Get(o, "phone"), de_String(Get(o, "phone")))
    IN  IF AllOk(<<n, e, p>>)
          THEN Ok([variant |-> "NewUser", name |-> n.Ok, email |-> e.Ok, phone |-> p.Ok])
          ELSE FirstErr(<<n, e, p>>)

from_json_CreatePaymentUserRequest(o) ==
    IF IsOk(de_ExistingUser(o)) THEN de_ExistingUser(o)
    ELSE IF IsOk(de_NewUser(o)) THEN de_NewUser(o)
    ELSE DecodeError("data did not match any variant of untagged enum CreatePaymentUserRequest")

---------------------------------------------------------------------------
(* Payloads as they may arrive *)

DropKey(o, k)    == [x \in DOMAIN o \ {k} |-> o[x]]
WithKey(o, k, j) == [x \in DOMAIN o \cup {k} |-> IF x = k THEN j ELSE o[x]]

\* values of "status" that name none of the six variants
BadTags == {JNull, JStr("paid"), JStr("Executed"), JStr("authorizationrequired")}

\* status payloads without a discriminator, or with a wrong one
TamperedPayloads ==
    {DropKey(to_json_PaymentStatus(v), "status") : v \in SnapshotStatuses}
    \cup {WithKey(to_json_PaymentStatus(v), "status", t) :
             v \in SnapshotStatuses, t \in BadTags}

UserKeys == {"id", "name", "email", "phone"}
UserKeyValues(k) ==
    IF k = "id" THEN {JNull, JStr("u_1"), JNum(7)} ELSE {JNull, JStr("A")}

\* user payloads: any subset of the four keys, each with a value of its own
UserPayloads ==
    UNION { {o \in [D -> {JNull, JStr("u_1"), JStr("A"), JNum(7)}] :
                \A k \in D : o[k] \in UserKeyValues(k)} : D \in SUBSET UserKeys }

---------------------------------------------------------------------------
(* The codec at work: a value is encoded and decoded again, or classified;  *)
(* a payload from the wire is decoded                                       *)

Serialize ==
    /\ stage = "value"
    /\ payload' = Some(to_json_PaymentStatus(value.some))
    /\ stage' = "encoded"
    /\ UNCHANGED <<value, decoded, classified>>
    /\ UNCHANGED pollVars

Deserialize ==
    /\ stage \in {"encoded", "wire"}
    /\ decoded' = Some(from_json_PaymentStatus(payload.some))
    /\ stage' = IF stage = "encoded" THEN "roundtrip" ELSE "wire_decoded"
    /\ UNCHANGED <<value, payload, classified>>
    /\ UNCHANGED pollVars

Classify ==
    /\ stage = "value"
    /\ classified' = Some(is_in_terminal_state(Payment(value.some)))
    /\ stage' = "classified"
    /\ UNCHANGED <<value, payload, decoded>>
    /\ UNCHANGED pollVars

DeserializeUser ==
    /\ stage = "userwire"
    /\ decoded' = Some(from_json_CreatePaymentUserRequest(payload.some))
    /\ stage' = "user_decoded"
    /\ UNCHANGED <<value, payload, classified>>
    /\ UNCHANGED pollVars

PollIdle ==
    /\ self = CreatePaymentResponse
    /\ tl = [payment_id |-> PaymentId, responses |-> <<Ok(None)>>]
    /\ interval = 1 /\ max_wait = 0
    /\ pc = "Idle" /\ now = 0 /\ fetches = 0
    /\ lastFetch = None /\ lastPoll = None /\ last = None /\ surfaced = <<>>

InitCodec ==
    /\ PollIdle
    /\ decoded = None
    /\ classified = None
    /\ \/ /\ stage = "value"
          /\ value \in {Some(v) : v \in PaymentStatus}
          /\ payload = None
       \/ /\ stage = "wire"
          /\ value = None
          /\ payload \in {Some(o) : o \in TamperedPayloads}
       \/ /\ stage = "userwire"
          /\ value = None
          /\ payload \in {Some(o) : o \in UserPayloads}

NextCodec == Serialize \/ Deserialize \/ Classify \/ DeserializeUser

SpecCodec == InitCodec /\ [][NextCodec]_vars

---------------------------------------------------------------------------
(* Properties of the codec and of the terminal-state predicate *)

\* C1: is_in_terminal_state of a Payment is true exactly when its status is
\* Executed, Settled or Failed, and false for AuthorizationRequired,
\* Authorizing and Authorized, whatever data the status carries.
C1_TerminalIffExecutedSettledFailed ==
    stage = "classified" =>
        /\ classified.some <=> value.some.variant \in {"Executed", "Settled", "Failed"}
        /\ value.some.variant \in {"AuthorizationRequired", "Authorizing", "Authorized"}
             => classified.some = FALSE

C1_Witness ==
    /\ stage = "classified"
    /\ value.some.variant = "Authorized"
    /\ value.some.authorization_flow = Some(WaitFlow)
    /\ classified = Some(FALSE)

\* the string the payload o holds under the key k, if any
Held(o, k) == IF k \in DOMAIN o /\ "str" \in DOMAIN o[k] THEN Some(o[k].str) ELSE None

\* C8, as claimed: a user payload with the key id decodes to ExistingUser,
\* whatever else it holds; a payload without it decodes to NewUser with the
\* name, email and phone it holds.
C8_AsClaimed ==
    stage = "user_decoded" =>
        LET o == payload.some
        IN  IF "id" \in DOMAIN o
              THEN /\ IsOk(decoded.some)
                   /\ decoded.some.Ok.variant = "ExistingUser"
              ELSE decoded.some =
                     Ok([variant |-> "NewUser",
                         name  |-> Held(o, "name"),
                         email |-> Held(o, "email"),
                         phone |-> Held(o, "phone")])

\* the names the six variants have on the wire
WireNames ==
    {"authorization_required", "authorizing", "authorized", "executed", "settled",
     "failed"}

WireNameOf(v) ==
    CASE v = "AuthorizationRequired" -> "authorization_required"
      [] v = "Authorizing" -> "authorizing"
      [] v = "Authorized"  -> "authorized"
      [] v = "Executed"    -> "executed"
      [] v = "Settled"     -> "settled"
      [] v = "Failed"      -> "failed"

\* C9: a PaymentStatus is written with its variant's snake_case name under the
\* sibling key status, and decoding what was written gives the value back; a
\* payload whose status is missing or is none of the six names does not decode.
C9_RoundTripAndUnknownTagFails ==
    /\ stage \in {"encoded", "roundtrip"} =>
          /\ "status" \in DOMAIN payload.some
          /\ payload.some.status = JStr(WireNameOf(value.some.variant))
    /\ stage = "roundtrip" => decoded = Some(Ok(value.some))
    /\ stage = "wire_decoded" =>
          ( ("status" \notin DOMAIN payload.some
             \/ "str" \notin DOMAIN payload.some.status
             \/ payload.some.status.str \notin WireNames)
            => IsErr(decoded.some) )

C9_Witness ==
    /\ stage = "roundtrip"
    /\ value.some.variant = "Settled"
    /\ value.some.authorization_flow = None
    /\ value.some.settlement_risk # None
    /\ Len(value.some.payment_source.account_identifiers) = 1
    /\ decoded = Some(Ok(value.some))

=============================================================================
